---- MODULE Spec2Model ----
(***************************************************************************)
(* A model of the Reactor of src/src/lib.rs: a petgraph dependency graph   *)
(* of input and computed cells, the propagation done by set_value and the  *)
(* per-cell callback registry.                                             *)
(*                                                                         *)
(* A NodeIndex n is the (n+1)-th element of the node sequence `cells`.     *)
(* A callback is a closure owned by the caller: the model identifies it    *)
(* with its CallbackID and records what it was called with in `fired`.     *)
(***************************************************************************)
EXTENDS Integers, Sequences, FiniteSets, TLC

\* ------------------------------------------------------------------ bounds
MaxCells == 3
MaxDeps == 2
MaxVal == 1
MaxCallbacks == 2

Values == 0..MaxVal
VMod == MaxVal + 1
\* the identifiers a caller passes: those of the cells that can exist; one is
\* unknown to the graph as long as fewer than MaxCells cells were created
CellIDs == 0..(MaxCells - 1)
CallbackIDs == 0..(MaxCallbacks - 1)
\* the compute functions the caller passes to create_compute
Funcs == {"sub", "mul"}
DepLists == UNION {[1..n -> CellIDs] : n \in 0..MaxDeps}

NoId == 0 - 1

VARIABLES
  cells,            \* dep_graph nodes: the Cell of every NodeIndex
  edges,            \* dep_graph edges, in insertion order
  cur_callback_id,  \* Reactor::cur_callback_id
  declared,         \* history: the dependency list each cell was created with
  issued,           \* history: the callback ids add_callback has returned, in order
  removed,          \* history: the <<cell, callback id>> pairs remove_callback has removed
  fired,            \* history: the arguments each callback received in the last call
  trace,            \* history: the recomputations of the last call, in order
  pre,              \* history: cells, edges and counter before the last call
  last,             \* history: the last call, its arguments and its result
  run               \* the position of a set_value that runs step by step

vars == <<cells, edges, cur_callback_id, declared, issued, removed, fired, trace, pre, last,
          run>>

\* ------------------------------------------------------------- pure helpers
RECURSIVE Sum(_)
Sum(s) == IF s = <<>> THEN 0 ELSE Head(s) + Sum(Tail(s))

RECURSIVE Product(_)
Product(s) == IF s = <<>> THEN 1 ELSE Head(s) * Product(Tail(s))

Range(s) == {s[i] : i \in DOMAIN s}

Reverse(s) == [i \in 1..Len(s) |-> s[Len(s) + 1 - i]]

Min(S) == CHOOSE x \in S : \A y \in S : x <= y

RECURSIVE SortedSeq(_)
SortedSeq(S) == IF S = {} THEN <<>> ELSE <<Min(S)>> \o SortedSeq(S \ {Min(S)})

\* a compute function Fn(&[T]) -> T applied to its argument slice: "mul"
\* multiplies its arguments modulo VMod, "sub" subtracts the others from the
\* first and stops at 0
Apply(f, args) ==
  IF f = "mul" THEN Product(args) % VMod
  ELSE IF args = <<>> \/ args[1] < Sum(Tail(args)) THEN 0 ELSE args[1] - Sum(Tail(args))

\* ------------------------------------------------------------------ cells
InputCell(v) == [kind |-> "Input", value |-> v, compute_func |-> "none", callbacks |-> {}]

ComputedCell(v, f) == [kind |-> "Computed", value |-> v, compute_func |-> f, callbacks |-> {}]

\* Graph::node_weight(id).is_some()
node_exists(cs, id) == id >= 0 /\ id < Len(cs)

node_weight(cs, id) == cs[id + 1]

\* Reactor::value; NoId stands for None
value(cs, id) == IF node_exists(cs, id) THEN node_weight(cs, id).value ELSE NoId

\* Graph::neighbors_directed(id, dir): the adjacency list of a node is a linked
\* list that add_edge prepends to, so the most recently added edge comes first
neighbors_directed(es, id, dir) ==
  Reverse(SelectSeq(es, LAMBDA e : IF dir = "Outgoing" THEN e.from = id ELSE e.to = id))

\* ------------------------------------------------------------- evaluation
\* mutant: the values are handed over in the order the graph yields the edges
dependency_values_walk_order(cs, es, id) ==
  LET walk == Reverse(SelectSeq(es, LAMBDA e : e.from = id))
  IN [n \in DOMAIN walk |-> cs[walk[n].to + 1].value]

\* the dependency values compute_cell_shallow hands to the compute function: a
\* BTreeMap from edge weight to the value of the edge's target, filled in walk
\* order (a later insert replaces an earlier one) and read in key order
dependency_values(cs, es, id) ==
  LET walk == neighbors_directed(es, id, "Outgoing")
      keys == {walk[i].weight : i \in DOMAIN walk}
      at(k) == CHOOSE i \in DOMAIN walk :
                 /\ walk[i].weight = k
                 /\ \A j \in DOMAIN walk : walk[j].weight = k => j <= i
      order == SortedSeq(keys)
  IN [n \in 1..Len(order) |-> node_weight(cs, walk[at(order[n])].to).value]

\* Reactor::compute_cell_shallow: the cells after it, its result, and the
\* invocation of the compute function it made (none for an input cell). The
\* dependency values are collected once, into the Vec the function is called
\* on (args ranges over a one-element set).
compute_cell_shallow(cs, es, id) ==
  IF ~node_exists(cs, id)
  THEN [cells |-> cs, err |-> "MissingCell", ev |-> <<>>]
  ELSE IF node_weight(cs, id).kind = "Input"
  THEN [cells |-> cs, err |-> "Ok", ev |-> <<>>]
  ELSE LET stored(args) ==
             LET v == Apply(node_weight(cs, id).compute_func, args)
             IN [cells |-> [cs EXCEPT ![id + 1].value = v],
                 err |-> "Ok",
                 ev |-> <<[cell |-> id, args |-> args, value |-> v]>>]
       IN CHOOSE r \in {stored(args) : args \in {dependency_values(cs, es, id)}} : TRUE

\* mutant: only the cells that depend on id directly are collected
find_deep_dependencies_on_direct(es, id) ==
  LET walker == SelectSeq(es, LAMBDA e : e.to = id)
  IN {walker[i].from : i \in DOMAIN walker}

\* Reactor::find_deep_dependencies_on
RECURSIVE find_deep_dependencies_on(_, _)
find_deep_dependencies_on(es, id) ==
  LET walker == neighbors_directed(es, id, "Incoming")
  IN UNION {{walker[i].from} \cup find_deep_dependencies_on(es, walker[i].from) :
              i \in DOMAIN walker}

\* Reactor::update_dependants; st = [cells, trace, err], and update_walk is its
\* while loop over the cells that depend on id
RECURSIVE update_dependants(_, _, _)
RECURSIVE update_walk(_, _, _)
update_dependants(st, es, id) ==
  LET r == compute_cell_shallow(st.cells, es, id)
  IN IF r.err # "Ok"
     THEN [cells |-> st.cells, trace |-> st.trace, err |-> r.err]
     ELSE update_walk([cells |-> r.cells, trace |-> st.trace \o r.ev, err |-> "Ok"],
                      es, neighbors_directed(es, id, "Incoming"))

\* mutant: the cells that depend on id are recomputed, their own dependants not
RECURSIVE update_walk_shallow(_, _, _)
update_walk_shallow(st, es, walker) ==
  IF walker = <<>> THEN st
  ELSE LET r == compute_cell_shallow(st.cells, es, Head(walker).from)
       IN update_walk_shallow([cells |-> r.cells, trace |-> st.trace \o r.ev, err |-> r.err],
                              es, Tail(walker))

update_walk(st, es, walker) ==
  IF walker = <<>> THEN st
  ELSE LET r == update_dependants(st, es, Head(walker).from)
       IN IF r.err # "Ok" THEN r ELSE update_walk(r, es, Tail(walker))

\* ------------------------------------------------------------- operations
NoFire == [cb \in CallbackIDs |-> <<>>]

\* mutant: only the first missing dependency is reported
missing_deps_first(cs, dependencies) ==
  LET all == SelectSeq(dependencies, LAMBDA dep : ~node_exists(cs, dep))
  IN IF all = <<>> THEN <<>> ELSE <<Head(all)>>

\* the missing_deps of Reactor::create_compute
missing_deps(cs, dependencies) ==
  SelectSeq(dependencies, LAMBDA dep : ~node_exists(cs, dep))

\* mutant: the values are taken in reverse order of the dependency list
dependant_values_reversed(cs, dependencies) ==
  [i \in DOMAIN dependencies |-> value(cs, dependencies[Len(dependencies) + 1 - i])]

\* the dependant_values of Reactor::create_compute
dependant_values(cs, dependencies) ==
  [i \in DOMAIN dependencies |-> value(cs, dependencies[i])]

\* mutant: the edges lead from the dependency to the new node
new_edges_reversed(node, dependencies) ==
  [i \in DOMAIN dependencies |-> [from |-> dependencies[i], to |-> node, weight |-> i - 1]]

\* the edges Reactor::create_compute adds for a new node
new_edges(node, dependencies) ==
  [i \in DOMAIN dependencies |-> [from |-> node, to |-> dependencies[i], weight |-> i - 1]]

\* mutant: the node is added before the dependencies are validated
create_compute_body_eager(cs, es, dependencies, compute_func) ==
  LET missing == missing_deps(cs, dependencies)
      val == Apply(compute_func, dependant_values(cs, dependencies))
  IN IF Len(missing) > 0
     THEN [cells |-> Append(cs, ComputedCell(0, compute_func)), edges |-> es,
           res |-> "MissingDepedencies", ret |-> NoId, missing |-> missing]
     ELSE [cells |-> Append(cs, ComputedCell(val, compute_func)),
           edges |-> es \o new_edges(Len(cs), dependencies),
           res |-> "Ok", ret |-> Len(cs), missing |-> <<>>]

\* the body of Reactor::create_compute: the graph after it and what it returns
create_compute_body(cs, es, dependencies, compute_func) ==
  LET missing == missing_deps(cs, dependencies)
      val == Apply(compute_func, dependant_values(cs, dependencies))
  IN IF Len(missing) > 0
     THEN [cells |-> cs, edges |-> es, res |-> "MissingDepedencies", ret |-> NoId,
           missing |-> missing]
     ELSE [cells |-> Append(cs, ComputedCell(val, compute_func)),
           edges |-> es \o new_edges(Len(cs), dependencies),
           res |-> "Ok", ret |-> Len(cs), missing |-> <<>>]

\* mutant: the kind of the cell is not checked
set_value_check_any_kind(cs, id) ==
  IF ~node_exists(cs, id) THEN "MissingCell" ELSE "Ok"

\* the first statement of Reactor::set_value: the cell must exist and be an input
set_value_check(cs, id) ==
  IF ~node_exists(cs, id) THEN "MissingCell"
  ELSE IF node_weight(cs, id).kind = "Input" THEN "Ok"
  ELSE "ExpectedInputCell"

\* Reactor::invoke_callback: every callback of the cell is called with the
\* cell's cached value; fd is what the callbacks have received so far
invoke_callback(fd, cs, id) ==
  [cb \in CallbackIDs |->
     IF cb \in node_weight(cs, id).callbacks
     THEN Append(fd[cb], node_weight(cs, id).value)
     ELSE fd[cb]]

\* mutant: every cell of the affected set counts as changed
changed_cells_all(affected_cells, before, after) == affected_cells

\* the cells set_value invokes the callbacks of: those of the affected set
\* whose value after the update differs from the value before it
changed_cells(affected_cells, before, after) ==
  {node \in affected_cells : value(after, node) # value(before, node)}

\* the filter/map/collect that ends Reactor::set_value, over the cells `nodes`;
\* it stops with an error at a cell invoke_callback rejects
RECURSIVE invoke_changed(_, _, _)
invoke_changed(st, cs, nodes) ==
  IF nodes = <<>> THEN st
  ELSE IF ~node_exists(cs, Head(nodes)) THEN [st EXCEPT !.res = "MissingCell"]
  ELSE IF node_weight(cs, Head(nodes)).kind = "Input"
  THEN [st EXCEPT !.res = "ExpectedComputedCell"]
  ELSE invoke_changed([st EXCEPT !.fired = invoke_callback(st.fired, cs, Head(nodes))],
                      cs, Tail(nodes))

\* mutant: the callbacks are called at every recomputation, with its result
RECURSIVE fire_trace(_, _, _)
fire_trace(fd, cs, tr) ==
  IF tr = <<>> THEN fd
  ELSE fire_trace([cb \in CallbackIDs |->
                     IF cb \in node_weight(cs, Head(tr).cell).callbacks
                     THEN Append(fd[cb], Head(tr).value)
                     ELSE fd[cb]],
                  cs, Tail(tr))

propagate_inline(written, es, id) ==
  LET upd == update_dependants([cells |-> written, trace |-> <<>>, err |-> "Ok"], es, id)
  IN [cells |-> upd.cells, trace |-> upd.trace,
      fired |-> fire_trace(NoFire, upd.cells, upd.trace), res |-> upd.err]

\* mutant: every computed cell of the graph is recomputed, in creation order
RECURSIVE recompute_all(_, _, _)
recompute_all(st, es, n) ==
  IF n >= Len(st.cells) THEN st
  ELSE LET r == compute_cell_shallow(st.cells, es, n)
       IN recompute_all([cells |-> r.cells, trace |-> st.trace \o r.ev, err |-> "Ok"],
                        es, n + 1)

propagate_everything(written, es, id) ==
  LET affected_cells == find_deep_dependencies_on(es, id)
      upd == recompute_all([cells |-> written, trace |-> <<>>, err |-> "Ok"], es, 0)
      changed == changed_cells(affected_cells, written, upd.cells)
  IN invoke_changed([cells |-> upd.cells, trace |-> upd.trace, fired |-> NoFire,
                     res |-> "Ok"],
                    upd.cells, SortedSeq(changed))

\* Reactor::set_value after the new value is written: the affected set, the
\* values before, the update, the values after, and the callbacks
propagate(written, es, id) ==
  LET affected_cells == find_deep_dependencies_on(es, id)
      upd == update_dependants([cells |-> written, trace |-> <<>>, err |-> "Ok"], es, id)
      changed == changed_cells(affected_cells, written, upd.cells)
  IN IF upd.err # "Ok"
     THEN [cells |-> upd.cells, trace |-> upd.trace, fired |-> NoFire, res |-> upd.err]
     ELSE invoke_changed([cells |-> upd.cells, trace |-> upd.trace, fired |-> NoFire,
                          res |-> "Ok"],
                         upd.cells, SortedSeq(changed))

\* the body of Reactor::set_value
set_value_body(cs, es, id, new_value) ==
  LET check == set_value_check(cs, id)
  IN IF check # "Ok"
     THEN [cells |-> cs, trace |-> <<>>, fired |-> NoFire, res |-> check]
     ELSE propagate([cs EXCEPT ![id + 1].value = new_value], es, id)

\* the match of Reactor::add_callback and Reactor::remove_callback on the cell:
\* it must exist and be a computed cell
callback_cell_check(cs, cell) ==
  IF ~node_exists(cs, cell) THEN "MissingCell"
  ELSE IF node_weight(cs, cell).kind = "Input" THEN "ExpectedComputedCell"
  ELSE "Ok"

\* mutant: the counter wraps around after one increment
next_callback_id_wraps(cur) == (cur + 1) % 2

\* the Computed arm of the match on a cell
IsComputedCell(cs, id) == callback_cell_check(cs, id) = "Ok"

\* the counter after a successful Reactor::add_callback (*id += 1)
next_callback_id(cur) == cur + 1

\* mutant: the counter is incremented before the cell is looked at
add_callback_body_counts_first(cs, cur, cell) ==
  LET check == callback_cell_check(cs, cell)
  IN IF check # "Ok"
     THEN [cells |-> cs, cur |-> next_callback_id(cur), res |-> check, ret |-> NoId]
     ELSE [cells |-> [cs EXCEPT ![cell + 1].callbacks = @ \cup {cur}],
           cur |-> next_callback_id(cur),
           res |-> "Ok", ret |-> next_callback_id(cur) - 1]

\* the body of Reactor::add_callback; cur is cur_callback_id
add_callback_body(cs, cur, cell) ==
  LET check == callback_cell_check(cs, cell)
  IN IF check # "Ok"
     THEN [cells |-> cs, cur |-> cur, res |-> check, ret |-> NoId]
     ELSE [cells |-> [cs EXCEPT ![cell + 1].callbacks = @ \cup {cur}],
           cur |-> next_callback_id(cur),
           res |-> "Ok", ret |-> next_callback_id(cur) - 1]

\* mutant: the entry stays in the map
remove_entry_kept(callbacks, callback) == callbacks

\* HashMap::remove on the callbacks of a cell
remove_entry(callbacks, callback) == callbacks \ {callback}

\* mutant: the callback is not looked up before it is removed
remove_callback_body_unchecked(cs, cell, callback) ==
  LET check == callback_cell_check(cs, cell)
  IN IF check # "Ok" THEN [cells |-> cs, res |-> check]
     ELSE [cells |-> [cs EXCEPT ![cell + 1].callbacks = remove_entry(@, callback)],
           res |-> "Ok"]

\* the body of Reactor::remove_callback
remove_callback_body(cs, cell, callback) ==
  LET check == callback_cell_check(cs, cell)
  IN IF check # "Ok" THEN [cells |-> cs, res |-> check]
     ELSE IF callback \notin node_weight(cs, cell).callbacks
     THEN [cells |-> cs, res |-> "CallbackDoesntExist"]
     ELSE [cells |-> [cs EXCEPT ![cell + 1].callbacks = remove_entry(@, callback)],
           res |-> "Ok"]

\* ------------------------------------------------------------------ history
Call(op, cell, deps, func, val, cb, res, ret, missing) ==
  [op |-> op, cell |-> cell, deps |-> deps, func |-> func, val |-> val, cb |-> cb,
   res |-> res, ret |-> ret, missing |-> missing]

Snapshot == [cells |-> cells, edges |-> edges, cur_callback_id |-> cur_callback_id]

\* no set_value is running
Idle == [phase |-> "idle", stack |-> <<>>, affected |-> {}, before |-> <<>>, pending |-> <<>>]

\* the library is single-threaded: a call starts when no other call runs
NoCallRuns == run.phase = "idle" /\ UNCHANGED run

\* --------------------------------------------------------------------- Init
\* Reactor::new
Init ==
  /\ cells = <<>>
  /\ edges = <<>>
  /\ cur_callback_id = 0
  /\ declared = <<>>
  /\ issued = <<>>
  /\ removed = {}
  /\ fired = NoFire
  /\ trace = <<>>
  /\ pre = [cells |-> <<>>, edges |-> <<>>, cur_callback_id |-> 0]
  /\ last = Call("new", NoId, <<>>, "none", NoId, NoId, "Ok", NoId, <<>>)
  /\ run = Idle

\* ------------------------------------------------------------------ actions
\* Reactor::create_input
create_input(initial) ==
  /\ NoCallRuns
  /\ Len(cells) < MaxCells
  /\ cells' = Append(cells, InputCell(initial))
  /\ declared' = Append(declared, <<>>)
  /\ fired' = NoFire
  /\ trace' = <<>>
  /\ pre' = Snapshot
  /\ last' = Call("create_input", NoId, <<>>, "none", initial, NoId, "Ok", Len(cells), <<>>)
  /\ UNCHANGED <<edges, cur_callback_id, issued, removed>>

\* Reactor::create_compute
create_compute(dependencies, compute_func) ==
  /\ NoCallRuns
  /\ Len(cells) < MaxCells
  /\ LET r == create_compute_body(cells, edges, dependencies, compute_func)
     IN /\ cells' = r.cells
        /\ edges' = r.edges
        /\ declared' = IF r.res = "Ok" THEN Append(declared, dependencies) ELSE declared
        /\ last' = Call("create_compute", NoId, dependencies, compute_func, NoId, NoId,
                        r.res, r.ret, r.missing)
  /\ fired' = NoFire
  /\ trace' = <<>>
  /\ pre' = Snapshot
  /\ UNCHANGED <<cur_callback_id, issued, removed>>

\* Reactor::set_value
set_value(id, new_value) ==
  /\ NoCallRuns
  /\ LET r == set_value_body(cells, edges, id, new_value)
     IN /\ cells' = r.cells
        /\ trace' = r.trace
        /\ fired' = r.fired
        /\ last' = Call("set_value", id, <<>>, "none", new_value, NoId, r.res, NoId, <<>>)
  /\ pre' = Snapshot
  /\ UNCHANGED <<edges, cur_callback_id, declared, issued, removed>>

\* Reactor::add_callback. The counter is a u32; at most MaxCallbacks callbacks
\* are registered, far fewer than the 2^32 - 1 at which `*id += 1` overflows
add_callback(cell) ==
  /\ NoCallRuns
  /\ Len(issued) < MaxCallbacks
  /\ LET r == add_callback_body(cells, cur_callback_id, cell)
     IN /\ cells' = r.cells
        /\ cur_callback_id' = r.cur
        /\ issued' = IF r.res = "Ok" THEN Append(issued, r.ret) ELSE issued
        /\ last' = Call("add_callback", cell, <<>>, "none", NoId, NoId, r.res, r.ret, <<>>)
  /\ fired' = NoFire
  /\ trace' = <<>>
  /\ pre' = Snapshot
  /\ UNCHANGED <<edges, declared, removed>>

\* Reactor::remove_callback
remove_callback(cell, callback) ==
  /\ NoCallRuns
  /\ LET r == remove_callback_body(cells, cell, callback)
     IN /\ cells' = r.cells
        /\ removed' = IF r.res = "Ok" THEN removed \cup {<<cell, callback>>} ELSE removed
        /\ last' = Call("remove_callback", cell, <<>>, "none", NoId, callback, r.res, NoId, <<>>)
  /\ fired' = NoFire
  /\ trace' = <<>>
  /\ pre' = Snapshot
  /\ UNCHANGED <<edges, cur_callback_id, declared, issued>>

Next ==
  \/ \E initial \in Values : create_input(initial)
  \/ \E dependencies \in DepLists, compute_func \in Funcs :
       create_compute(dependencies, compute_func)
  \/ \E id \in CellIDs, new_value \in Values : set_value(id, new_value)
  \/ \E cell \in CellIDs : add_callback(cell)
  \/ \E cell \in CellIDs, callback \in CallbackIDs : remove_callback(cell, callback)

Spec == Init /\ [][Next]_vars

\* ------------------------------------------------- set_value, step by step
\* The same Reactor::set_value, one recursive call, return or callback per
\* step. run.stack holds the activations of the recursive walk that runs,
\* each with its node, the rest of its detached walker and (for
\* find_deep_dependencies_on) the set it has collected.

\* the recursion cannot nest deeper than there are cells; the limit lies one
\* above that
StackLimit == MaxCells + 1

Frame(es, node) ==
  [node |-> node, walker |-> neighbors_directed(es, node, "Incoming"), set |-> {}]

Top == run.stack[Len(run.stack)]

\* mutant: the walker is not moved on, it yields the same node again
advance_stuck(walker) == walker

\* WalkNeighbors::next_node: what is left of a walker after it yielded a node
advance(walker) == Tail(walker)

\* the stack after the top activation took the next node from its walker
\* and called itself on it
Descend(es) ==
  [run.stack EXCEPT ![Len(run.stack)].walker = advance(@)]
    \o <<Frame(es, Head(Top.walker).from)>>

\* mutant: a cell whose recomputation changed its value calls its callbacks
\* at once
update_visit_notifying(cs, fd, es, id) ==
  LET r == compute_cell_shallow(cs, es, id)
  IN r @@ [fired |-> IF IsComputedCell(cs, id) /\ value(r.cells, id) # value(cs, id)
                     THEN invoke_callback(fd, r.cells, id)
                     ELSE fd]

\* the compute_cell_shallow call that opens Reactor::update_dependants; fd is
\* what the callbacks have received so far
update_visit(cs, fd, es, id) == compute_cell_shallow(cs, es, id) @@ [fired |-> fd]

\* set_value is called: the first statement, then the call of
\* find_deep_dependencies_on
sv_call(id, new_value) ==
  /\ run.phase = "idle"
  /\ pre' = Snapshot
  /\ fired' = NoFire
  /\ trace' = <<>>
  /\ UNCHANGED <<edges, cur_callback_id, declared, issued, removed>>
  /\ IF set_value_check(cells, id) # "Ok"
     THEN /\ last' = Call("set_value", id, <<>>, "none", new_value, NoId,
                          set_value_check(cells, id), NoId, <<>>)
          /\ UNCHANGED <<cells, run>>
     ELSE /\ cells' = [cells EXCEPT ![id + 1].value = new_value]
          /\ last' = Call("set_value", id, <<>>, "none", new_value, NoId, "Running", NoId, <<>>)
          /\ run' = [Idle EXCEPT !.phase = "find", !.stack = <<Frame(edges, id)>>]

\* one step of find_deep_dependencies_on; when the outermost activation
\* returns, values_before_set is taken and update_dependants is called
sv_find ==
  /\ run.phase = "find"
  /\ UNCHANGED <<edges, cur_callback_id, declared, issued, removed, fired, pre>>
  /\ IF Top.walker # <<>>
     THEN /\ Len(run.stack) < StackLimit
          /\ run' = [run EXCEPT !.stack = Descend(edges)]
          /\ UNCHANGED <<cells, trace, last>>
     ELSE IF Len(run.stack) > 1
     THEN /\ run' = [run EXCEPT !.stack =
                        [SubSeq(run.stack, 1, Len(run.stack) - 1)
                           EXCEPT ![Len(run.stack) - 1].set = @ \cup {Top.node} \cup Top.set]]
          /\ UNCHANGED <<cells, trace, last>>
     ELSE \E r \in {update_visit(cells, fired, edges, last.cell)} :
             IF r.err # "Ok"
             THEN /\ last' = [last EXCEPT !.res = r.err]
                  /\ run' = Idle
                  /\ UNCHANGED <<cells, trace>>
             ELSE /\ cells' = r.cells
                  /\ trace' = trace \o r.ev
                  /\ run' = [run EXCEPT !.phase = "update", !.affected = Top.set,
                                          !.before = cells,
                                          !.stack = <<Frame(edges, last.cell)>>]
                  /\ UNCHANGED last

\* one step of update_dependants; when the outermost activation returns,
\* values_after_set is taken and the changed cells are queued for their callbacks
sv_update ==
  /\ run.phase = "update"
  /\ UNCHANGED <<edges, cur_callback_id, declared, issued, removed, pre>>
  /\ IF Top.walker # <<>>
     THEN /\ Len(run.stack) < StackLimit
          /\ \E r \in {update_visit(cells, fired, edges, Head(Top.walker).from)} :
                IF r.err # "Ok"
                THEN /\ last' = [last EXCEPT !.res = r.err]
                     /\ run' = Idle
                     /\ UNCHANGED <<cells, trace, fired>>
                ELSE /\ cells' = r.cells
                     /\ trace' = trace \o r.ev
                     /\ fired' = r.fired
                     /\ run' = [run EXCEPT !.stack = Descend(edges)]
                     /\ UNCHANGED last
     ELSE IF Len(run.stack) > 1
     THEN /\ run' = [run EXCEPT !.stack = SubSeq(run.stack, 1, Len(run.stack) - 1)]
          /\ UNCHANGED <<cells, trace, fired, last>>
     ELSE /\ run' = [run EXCEPT !.phase = "callbacks", !.stack = <<>>,
                        !.pending = SortedSeq(changed_cells(run.affected, run.before, cells))]
          /\ UNCHANGED <<cells, trace, fired, last>>

\* one invoke_callback of the closing filter/map/collect, or the return
sv_callback ==
  /\ run.phase = "callbacks"
  /\ UNCHANGED <<cells, edges, cur_callback_id, declared, issued, removed, trace, pre>>
  /\ IF run.pending = <<>>
     THEN /\ last' = [last EXCEPT !.res = "Ok"]
          /\ run' = Idle
          /\ UNCHANGED fired
     ELSE IF ~IsComputedCell(cells, Head(run.pending))
     THEN /\ last' = [last EXCEPT !.res = callback_cell_check(cells, Head(run.pending))]
          /\ run' = Idle
          /\ UNCHANGED fired
     ELSE /\ fired' = invoke_callback(fired, cells, Head(run.pending))
          /\ run' = [run EXCEPT !.pending = Tail(@)]
          /\ UNCHANGED last

sv_step == sv_find \/ sv_update \/ sv_callback

NextWalk ==
  \/ \E initial \in Values : create_input(initial)
  \/ \E dependencies \in DepLists, compute_func \in Funcs :
       create_compute(dependencies, compute_func)
  \/ \E cell \in CellIDs : add_callback(cell)
  \/ \E id \in CellIDs, new_value \in Values : sv_call(id, new_value)
  \/ sv_find
  \/ sv_update
  \/ sv_callback

\* a set_value that was called keeps running: nothing else runs on the thread
SpecWalk == Init /\ [][NextWalk]_vars /\ WF_vars(sv_step)

\* ------------------------------------------------------------------- claims
IsComputed(cs, id) == node_exists(cs, id) /\ node_weight(cs, id).kind = "Computed"

IsInput(cs, id) == node_exists(cs, id) /\ node_weight(cs, id).kind = "Input"

NodeIds(cs) == 0..(Len(cs) - 1)

\* the compute function of a cell applied to the current values of the
\* dependencies the cell was created with, in the order they were given
Recomputed(cs, id) ==
  Apply(node_weight(cs, id).compute_func,
        [i \in DOMAIN declared[id + 1] |-> value(cs, declared[id + 1][i])])

SetValueOk == last.op = "set_value" /\ last.res = "Ok"

\* the values the recomputations of the last call produced for a cell, in order
TraceOf(id) == SelectSeq(trace, LAMBDA ev : ev.cell = id)

\* a cell the last call recomputed more than once, at least once to a value
\* that is not its final one
StaleRecomputation(id) ==
  /\ Len(TraceOf(id)) >= 2
  /\ \E i \in DOMAIN TraceOf(id) : TraceOf(id)[i].value # value(cells, id)

\* C1: between calls, every computed cell's cached value equals its compute
\* function applied to the current values of its dependencies in declared order
C1_CachedValuesConsistent ==
  \A id \in NodeIds(cells) :
    IsComputed(cells, id) => value(cells, id) = Recomputed(cells, id)

\* a successful set_value changed a cell that has a dependant two paths lead
\* to, and that dependant was first recomputed from a stale value
C1_Witness ==
  /\ SetValueOk
  /\ \E id \in NodeIds(cells) : IsComputed(cells, id) /\ StaleRecomputation(id)
  /\ \E id \in NodeIds(cells) : IsComputed(cells, id) /\ value(cells, id) # value(pre.cells, id)

\* C2: after a successful set_value, every callback registered on a computed
\* cell was called once if the cell's value differs from the value before the
\* call and not at all if it is the same
C2_CallbackExactlyOnce ==
  SetValueOk =>
    \A id \in NodeIds(cells) : \A cb \in node_weight(cells, id).callbacks :
      Len(fired[cb]) = IF value(cells, id) # value(pre.cells, id) THEN 1 ELSE 0

\* one set_value left a cell with a callback at its old value after an
\* intermediate one (no call), and changed another cell with a callback (one call)
C2_Witness ==
  /\ SetValueOk
  /\ \E id \in NodeIds(cells) : \E cb \in node_weight(cells, id).callbacks :
       /\ StaleRecomputation(id)
       /\ value(cells, id) = value(pre.cells, id)
       /\ fired[cb] = <<>>
  /\ \E id \in NodeIds(cells) : \E cb \in node_weight(cells, id).callbacks :
       /\ value(cells, id) # value(pre.cells, id)
       /\ Len(fired[cb]) = 1

\* C3: every argument a callback receives from set_value is the value that
\* value(cell) returns once set_value has returned
C3_CallbackGetsFinalValue ==
  \A id \in NodeIds(cells) : \A cb \in node_weight(cells, id).callbacks :
    \A i \in DOMAIN fired[cb] : fired[cb][i] = value(cells, id)

\* a callback was called for a cell that propagation first recomputed to a
\* value other than its final one
C3_Witness ==
  /\ SetValueOk
  /\ \E id \in NodeIds(cells) : \E cb \in node_weight(cells, id).callbacks :
       /\ StaleRecomputation(id)
       /\ fired[cb] # <<>>

\* C4: a callback that remove_callback has removed is not called by any later
\* set_value, and the callbacks still registered on a cell whose value changed
\* are called
C4_RemovedNeverFires ==
  /\ \A r \in removed : fired[r[2]] = <<>>
  /\ SetValueOk =>
       \A id \in NodeIds(cells) : \A cb \in node_weight(cells, id).callbacks :
         value(cells, id) # value(pre.cells, id) => fired[cb] # <<>>

\* a set_value changed a cell from which one callback had been removed and on
\* which another is still registered and was called
C4_Witness ==
  /\ SetValueOk
  /\ \E r \in removed : \E cb \in node_weight(cells, r[1]).callbacks :
       /\ value(cells, r[1]) # value(pre.cells, r[1])
       /\ fired[cb] # <<>>

\* C5: create_input(v) returns an id whose value is v; a successful
\* create_compute(deps, f) returns an id whose value is f applied to the values
\* of deps in the order given; value of an id that was never created is None
C5_ValueAfterCreate ==
  /\ last.op = "create_input" => value(cells, last.ret) = last.val
  /\ (last.op = "create_compute" /\ last.res = "Ok") =>
       value(cells, last.ret) =
         Apply(last.func, [i \in DOMAIN last.deps |-> value(pre.cells, last.deps[i])])
  /\ \A id \in 0..MaxCells : (id >= Len(cells)) <=> (value(cells, id) = NoId)

\* a computed cell was created over two dependencies whose order matters
C5_Witness ==
  /\ last.op = "create_compute" /\ last.res = "Ok"
  /\ Len(last.deps) = 2
  /\ value(cells, last.ret) #
       Apply(last.func, [i \in DOMAIN last.deps |-> value(pre.cells, last.deps[3 - i])])

\* C6: create_compute with a dependency that does not exist fails with
\* MissingDepedencies, and the ids it reports are exactly those of the list
\* that do not exist
C6_MissingDependenciesReported ==
  last.op = "create_compute" =>
    LET absent == {dep \in Range(last.deps) : ~node_exists(pre.cells, dep)}
    IN absent # {} =>
         /\ last.res = "MissingDepedencies"
         /\ Range(last.missing) = absent

\* a create_compute failed over a list of two different ids that do not exist
C6_Witness ==
  /\ last.op = "create_compute" /\ last.res = "MissingDepedencies"
  /\ Cardinality(Range(last.missing)) = 2

\* C7: a create_compute that fails leaves cells, edges and the callback counter
\* as they were, and every created cell gets the number of cells before its
\* creation as identifier, so a failed call does not shift the next identifier
C7_FailedCreateChangesNothing ==
  /\ (last.op = "create_compute" /\ last.res # "Ok") =>
       /\ cells = pre.cells
       /\ edges = pre.edges
       /\ cur_callback_id = pre.cur_callback_id
  /\ (last.op \in {"create_input", "create_compute"} /\ last.res = "Ok") =>
       /\ last.ret = Len(pre.cells)
       /\ Len(cells) = Len(pre.cells) + 1

\* a create_compute over one existing and one missing dependency failed on a
\* graph that holds a cell with a callback
C7_Witness ==
  /\ last.op = "create_compute" /\ last.res # "Ok"
  /\ \E dep \in Range(last.deps) : node_exists(cells, dep)
  /\ \E id \in NodeIds(cells) : node_weight(cells, id).callbacks # {}

\* C8: set_value fails with MissingCell on an unknown id and with
\* ExpectedInputCell on a computed cell, and a failed set_value changes no
\* value, recomputes nothing and calls no callback
C8_SetValueRejects ==
  last.op = "set_value" =>
    /\ ~node_exists(pre.cells, last.cell) => last.res = "MissingCell"
    /\ IsComputed(pre.cells, last.cell) => last.res = "ExpectedInputCell"
    /\ last.res # "Ok" => cells = pre.cells /\ trace = <<>> /\ fired = NoFire

\* set_value was refused on a computed cell that has a callback and a
\* dependant, with a value other than the one the cell holds
C8_Witness ==
  /\ last.op = "set_value" /\ last.res = "ExpectedInputCell"
  /\ node_weight(cells, last.cell).callbacks # {}
  /\ find_deep_dependencies_on(edges, last.cell) # {}
  /\ last.val # value(cells, last.cell)

\* C9: add_callback fails with MissingCell on an unknown id and with
\* ExpectedComputedCell on an input cell, and a failed add_callback registers
\* nothing and leaves the callback counter as it was
C9_AddCallbackRejects ==
  last.op = "add_callback" =>
    /\ ~node_exists(pre.cells, last.cell) => last.res = "MissingCell"
    /\ IsInput(pre.cells, last.cell) => last.res = "ExpectedComputedCell"
    /\ last.res # "Ok" =>
         /\ cells = pre.cells
         /\ cur_callback_id = pre.cur_callback_id
         /\ last.ret = NoId

\* add_callback was refused on an input cell after a callback had been issued
C9_Witness ==
  /\ last.op = "add_callback" /\ last.res = "ExpectedComputedCell"
  /\ issued # <<>>

\* C10: the callback ids add_callback returns are strictly increasing, so no
\* two successful calls return the same id
C10_CallbackIdsUnique ==
  \A i, j \in DOMAIN issued : i < j => issued[i] < issued[j]

\* a second callback was issued, on another cell, after the first was removed
C10_Witness ==
  /\ last.op = "add_callback" /\ last.res = "Ok"
  /\ Len(issued) = 2
  /\ \E r \in removed : r[1] # last.cell

\* C11: remove_callback fails with MissingCell on an unknown cell, with
\* ExpectedComputedCell on an input cell and with CallbackDoesntExist when the
\* callback is not registered on the named computed cell; a failed
\* remove_callback leaves the cells, and so every callback registry, unchanged
C11_RemoveCallbackRejects ==
  last.op = "remove_callback" =>
    /\ ~node_exists(pre.cells, last.cell) => last.res = "MissingCell"
    /\ IsInput(pre.cells, last.cell) => last.res = "ExpectedComputedCell"
    /\ (IsComputed(pre.cells, last.cell)
          /\ last.cb \notin node_weight(pre.cells, last.cell).callbacks)
         => last.res = "CallbackDoesntExist"
    /\ last.res # "Ok" => cells = pre.cells

\* remove_callback was refused for a callback that is registered on another
\* computed cell than the one named
C11_Witness ==
  /\ last.op = "remove_callback" /\ last.res = "CallbackDoesntExist"
  /\ \E id \in NodeIds(cells) : id # last.cell /\ last.cb \in node_weight(cells, id).callbacks

\* the number of dependency paths that lead from cell id down to cell root,
\* counted over the dependency lists the cells were created with
RECURSIVE PathsTo(_, _)
PathsTo(root, id) ==
  IF id = root THEN 1
  ELSE Sum([i \in DOMAIN declared[id + 1] |-> PathsTo(root, declared[id + 1][i])])

\* the cells that depend on root, directly or through other cells
DependsOn(root) == {id \in NodeIds(cells) : id # root /\ PathsTo(root, id) > 0}

\* C13 as claimed: a successful set_value recomputes every cell that depends
\* on the mutated input exactly once
C13_RecomputedExactlyOnce ==
  SetValueOk => \A id \in DependsOn(last.cell) : Len(TraceOf(id)) = 1

\* C13, amended: a successful set_value recomputes every cell once per
\* dependency path that leads from the mutated input to it, so a cell that
\* depends on the input is recomputed at least once and any other cell never
C13_RecomputedOncePerPath ==
  SetValueOk =>
    \A id \in NodeIds(cells) :
      id # last.cell => Len(TraceOf(id)) = PathsTo(last.cell, id)

\* a set_value recomputed one cell once and another cell, which two paths
\* lead to, twice
C13_Witness ==
  /\ SetValueOk
  /\ \E id \in DependsOn(last.cell) : Len(TraceOf(id)) = 1
  /\ \E id \in DependsOn(last.cell) : Len(TraceOf(id)) = 2 /\ PathsTo(last.cell, id) = 2

\* the values the dependencies of a cell hold in cs, in the order the cell
\* was created with
DeclaredValues(cs, id) == [i \in DOMAIN declared[id + 1] |-> value(cs, declared[id + 1][i])]

\* C14 as claimed: no recomputation of a successful set_value reads a
\* dependency value that differs from the value the dependency ends with
C14_ReadsOnlyFinalValues ==
  SetValueOk =>
    \A k \in DOMAIN trace : trace[k].args = DeclaredValues(cells, trace[k].cell)

\* C14, amended: the last recomputation of every cell a successful set_value
\* recomputes reads the final values of the cell's dependencies (an earlier
\* recomputation of the same cell may read a value that changes later)
C14_LastRecomputationReadsFinalValues ==
  SetValueOk =>
    \A id \in NodeIds(cells) :
      TraceOf(id) # <<>> =>
        TraceOf(id)[Len(TraceOf(id))].args = DeclaredValues(cells, id)

\* a set_value recomputed a cell from a dependency value that changed later
\* in the same call, and recomputed it again from the final values
C14_Witness ==
  /\ SetValueOk
  /\ \E id \in NodeIds(cells) :
       /\ Len(TraceOf(id)) = 2
       /\ TraceOf(id)[1].args # DeclaredValues(cells, id)
       /\ TraceOf(id)[2].args = DeclaredValues(cells, id)

\* C15: for every input cell, find_deep_dependencies_on yields exactly the
\* cells that depend on it directly or through other cells; they are all
\* computed cells and the input itself is not among them
C15_AffectedSetIsDependants ==
  \A id \in NodeIds(cells) :
    IsInput(cells, id) =>
      /\ find_deep_dependencies_on(edges, id) = DependsOn(id)
      /\ id \notin find_deep_dependencies_on(edges, id)
      /\ \A dep \in find_deep_dependencies_on(edges, id) : IsComputed(cells, dep)

\* set_value ran on an input with a dependant that two paths lead to and that
\* does not list the input itself
C15_Witness ==
  /\ SetValueOk
  /\ \E dep \in find_deep_dependencies_on(edges, last.cell) :
       /\ PathsTo(last.cell, dep) = 2
       /\ last.cell \notin Range(declared[dep + 1])

\* the cells as they are before the n+1-th recomputation of the last
\* set_value: the new input value written, then the first n results stored
RECURSIVE Replay(_)
Replay(n) ==
  IF n = 0 THEN [pre.cells EXCEPT ![last.cell + 1].value = last.val]
  ELSE [Replay(n - 1) EXCEPT ![trace[n].cell + 1].value = trace[n].value]

\* the outgoing edges of a cell
EdgesFrom(id) == SelectSeq(edges, LAMBDA e : e.from = id)

\* C16: the outgoing edges of every computed cell carry the positions
\* 0..dependency_count-1 once each, the edge of a position leads to the
\* dependency declared at it, and every recomputation hands the compute
\* function the dependency values of that moment in declared order
C16_DeclaredOrderPreserved ==
  /\ \A id \in NodeIds(cells) :
       IsComputed(cells, id) =>
         /\ Len(EdgesFrom(id)) = Len(declared[id + 1])
         /\ {EdgesFrom(id)[i].weight : i \in DOMAIN EdgesFrom(id)}
              = 0..(Len(declared[id + 1]) - 1)
         /\ \A i \in DOMAIN EdgesFrom(id) :
              EdgesFrom(id)[i].to = declared[id + 1][EdgesFrom(id)[i].weight + 1]
  /\ SetValueOk =>
       \A k \in DOMAIN trace :
         trace[k].args = DeclaredValues(Replay(k - 1), trace[k].cell)

\* a set_value recomputed a cell that lists one dependency at two positions
\* and a cell whose two dependencies held different values
C16_Witness ==
  /\ SetValueOk
  /\ \E k \in DOMAIN trace :
       /\ Len(declared[trace[k].cell + 1]) = 2
       /\ declared[trace[k].cell + 1][1] = declared[trace[k].cell + 1][2]
  /\ \E k \in DOMAIN trace :
       /\ Len(trace[k].args) = 2
       /\ trace[k].args[1] # trace[k].args[2]

\* C17: every dependency edge leads from a computed cell to a cell with a
\* smaller identifier, so the graph has no cycle; no call removes a cell or
\* changes the kind of one, and a created cell gets an identifier no cell had
C17_AcyclicAndKindsStable ==
  /\ \A i \in DOMAIN edges :
       /\ IsComputed(cells, edges[i].from)
       /\ node_exists(cells, edges[i].to)
       /\ edges[i].to < edges[i].from
  /\ Len(cells) >= Len(pre.cells)
  /\ \A id \in NodeIds(pre.cells) :
       node_weight(cells, id).kind = node_weight(pre.cells, id).kind
  /\ (last.op \in {"create_input", "create_compute"} /\ last.res = "Ok") =>
       ~node_exists(pre.cells, last.ret) /\ node_exists(cells, last.ret)

\* a computed cell was created over another computed cell and an input cell
C17_Witness ==
  /\ last.op = "create_compute" /\ last.res = "Ok"
  /\ \E dep \in Range(last.deps) : IsComputed(cells, dep)
  /\ \E dep \in Range(last.deps) : IsInput(cells, dep)

\* set_value was called on an input cell with the value the cell already held
SetSameValue ==
  /\ last.op = "set_value"
  /\ IsInput(pre.cells, last.cell)
  /\ last.val = value(pre.cells, last.cell)

\* C18: set_value with the value the input cell already holds returns Ok,
\* leaves every cell as it was and calls no callback, while every cell that
\* depends on the input is recomputed
C18_SameValueIsSilent ==
  SetSameValue =>
    /\ last.res = "Ok"
    /\ cells = pre.cells
    /\ fired = NoFire
    /\ \A dep \in DependsOn(last.cell) : TraceOf(dep) # <<>>

\* set_value with the old value ran on an input that a cell with a callback
\* depends on, and recomputed that cell
C18_Witness ==
  /\ SetSameValue
  /\ \E dep \in DependsOn(last.cell) :
       node_weight(cells, dep).callbacks # {} /\ TraceOf(dep) # <<>>

\* the cells a set_value on the last call's input may not touch
Unaffected == NodeIds(cells) \ (DependsOn(last.cell) \cup {last.cell})

\* C19: a successful set_value adds or removes no cell, edge or callback
\* registration and changes no kind or compute function; the input holds the
\* new value; a cell that is neither the input nor depends on it keeps its
\* value, is not recomputed and has no callback called
C19_SetValueFrame ==
  SetValueOk =>
    /\ Len(cells) = Len(pre.cells)
    /\ edges = pre.edges
    /\ cur_callback_id = pre.cur_callback_id
    /\ value(cells, last.cell) = last.val
    /\ \A id \in NodeIds(cells) :
         /\ node_weight(cells, id).kind = node_weight(pre.cells, id).kind
         /\ node_weight(cells, id).compute_func = node_weight(pre.cells, id).compute_func
         /\ node_weight(cells, id).callbacks = node_weight(pre.cells, id).callbacks
    /\ \A id \in Unaffected :
         /\ value(cells, id) = value(pre.cells, id)
         /\ TraceOf(id) = <<>>
         /\ \A cb \in node_weight(cells, id).callbacks : fired[cb] = <<>>

\* a set_value changed a dependant of its input while a computed cell with a
\* callback that does not depend on the input was left alone
C19_Witness ==
  /\ SetValueOk
  /\ \E id \in Unaffected : IsComputed(cells, id) /\ node_weight(cells, id).callbacks # {}
  /\ \E dep \in DependsOn(last.cell) : value(cells, dep) # value(pre.cells, dep)

\* every computed cell of cs holds what its function gives on the values its
\* dependencies hold in cs
AllConsistent(cs) ==
  \A id \in NodeIds(cs) :
    IsComputed(cs, id) =>
      cs[id + 1].value = Apply(cs[id + 1].compute_func, DeclaredValues(cs, id))

\* C12: in a set_value call no callback runs before every recomputation of the
\* call has finished. Once a callback of the running call has received a
\* value, the call is past update_dependants (it is delivering callbacks or
\* has returned), no activation of the walk is left, and every computed cell
\* holds the value of its function on the current values of its dependencies;
\* the same holds in the state in which the first callback is about to run.
C12_CallbacksAfterPropagation ==
  (run.phase = "callbacks" \/ fired # NoFire) =>
    /\ run.phase \in {"callbacks", "idle"}
    /\ run.stack = <<>>
    /\ AllConsistent(cells)

\* a call that recomputed a cell from a stale value and again, and is now
\* between two of its callbacks
C12_Witness ==
  /\ run.phase = "callbacks"
  /\ fired # NoFire
  /\ run.pending # <<>>
  /\ \E id \in NodeIds(cells) : Len(TraceOf(id)) >= 2

\* the callbacks of every cell whose value the call changed have run
CallbacksRan ==
  \A id \in NodeIds(cells) :
    (IsComputed(cells, id) /\ id \in DependsOn(last.cell)
       /\ cells[id + 1].value # pre.cells[id + 1].value) =>
      \A cb \in cells[id + 1].callbacks : fired[cb] = <<cells[id + 1].value>>

\* C20: every set_value call terminates. The recursion of the two walks never
\* nests deeper than there are cells, and a call that is running leads to a
\* state in which it has returned Ok with the callbacks of the changed cells
\* run.
C20_SetValueTerminates ==
  /\ [](Len(run.stack) <= Len(cells))
  /\ (run.phase # "idle") ~>
       (run.phase = "idle" /\ last.op = "set_value" /\ last.res = "Ok" /\ CallbacksRan)

\* a call has returned that reached a cell along two paths and ran a callback
C20_Witness ==
  /\ run.phase = "idle"
  /\ SetValueOk
  /\ fired # NoFire
  /\ \E id \in NodeIds(cells) : PathsTo(last.cell, id) >= 2 /\ Len(TraceOf(id)) >= 2

====
